---- MODULE Spec2Model ----
(***************************************************************************)
(* A model of cart (src/cart.go): the command-line client that finds a     *)
(* green CircleCI build for a branch, optionally inside a named workflow   *)
(* and job, lists that build's artifacts and downloads the one named.      *)
(*                                                                         *)
(* One run of main() is a behaviour.  The flags and what the CircleCI API  *)
(* would answer are chosen in the initial state; the outcome of each       *)
(* network or file operation (success, transport error, decode error) is   *)
(* chosen when the operation is made.  Offsets are zero-based as in the    *)
(* Go code: builds[i] of the code is builds[i + 1] here.  Strings that the *)
(* code inspects character by character (the artifact name, the artifact   *)
(* URLs, the git remote and the project) are sequences of characters;      *)
(* strings it only compares are TLA+ strings.                              *)
(***************************************************************************)
EXTENDS Integers, Sequences, FiniteSets, TLC

VARIABLES
    project,              \* -repo, then the project of the git remote if empty;
                          \* a sequence of characters
    remote,               \* what git remote get-url origin prints
    artifactName,         \* flag.Arg(0), a sequence of characters
    circleToken,          \* -token or $CIRCLE_TOKEN, a sequence of characters
    retrieveBuildsCount,  \* -search-depth
    flagBuild,            \* the value given to -build
    flagListArtifacts,    \* -list-artifacts
    dryRun,               \* -dry-run
    flagParse,            \* what flag.Parse makes of the command line
    stray,                \* more than one argument is left after the flags
    flagVerbose,          \* -v
    envVerbosity,         \* $VERBOSITY, a sequence of characters
    verbosity,            \* the package variable verbosity
    filter,               \* FilterSet: branch (a sequence of characters),
                          \* workflow, jobname, anyFlowID
    circleBuilds,         \* what the build-list endpoint answers
    circleArtifacts,      \* what the artifact-list endpoint answers
    pc,                   \* where the run is
    buildNum,             \* main's buildNum
    builds,               \* circleFindBuild's decoded builds
    i,                    \* circleFindBuild's loop offset
    onlyWorkflowID,       \* the latched workflow id
    foundBuild,           \* offset of the build found, -1 while none
    heads,                \* the offsets at which headOfWorkflow was set
    artifacts,            \* main's decoded artifacts
    ai,                   \* offset of downloadArtifact's range loop
    requests,             \* the HTTP requests made so far, in order
    shown,                \* the lines written to stdout and stderr by
                          \* circleFindBuild, and those written elsewhere that
                          \* carry a URL, in order
    outputCreated,        \* os.Create(outputPath) has succeeded
    exitStatus,           \* -1 while running, then the process's exit status
    err                   \* what ended the run

flagVars == <<remote, artifactName, circleToken, retrieveBuildsCount, flagBuild,
              flagListArtifacts, dryRun, flagParse, stray, flagVerbose, envVerbosity,
              filter, circleBuilds, circleArtifacts>>
inputVars == <<project, verbosity, flagVars>>
scanVars == <<builds, i, onlyWorkflowID, foundBuild, heads>>
dlVars == <<artifacts, ai, outputCreated>>
vars == <<inputVars, pc, buildNum, scanVars, dlVars, requests, shown, exitStatus, err>>

----------------------------------------------------------------------------
(* Bounds of the model. *)

\* longest build list the API answers
MaxBuilds == 2
\* longest artifact list the API answers
MaxArtifacts == 2
\* longest artifact URL and artifact name, in characters
MaxURLLen == 2
\* longest owner and repository name of a git remote, in characters
MaxNameLen == 2

----------------------------------------------------------------------------
(* Data. *)

\* builds[i].Workflows == nil
Nil == <<>>

\* type workflow; JobID is never read
Workflow(name, id, job) == [WorkflowName |-> name, WorkflowID |-> id, JobName |-> job]

\* type build.  Revision is the length of vcs_revision: only Revision[:8] reads it.
\* Subject and StopTime are only printed.
Build(num, rev, wf, outcome) ==
    [BuildNum |-> num, Revision |-> rev, Workflows |-> wf, Outcome |-> outcome]

\* type artifact; Path and NodeIndex are only printed
Artifact(url) == [URL |-> url]

\* type FilterSet
FilterSet(branch, workflow, jobname, anyFlowID) ==
    [branch |-> branch, workflow |-> workflow, jobname |-> jobname, anyFlowID |-> anyFlowID]

\* Revision[:8] needs this many characters
RevisionPrefix == 8

SeqsUpTo(S, n) == UNION {[1..k -> S] : k \in 0..n}

----------------------------------------------------------------------------
(* circleFindBuild: the tests of one iteration of the loop over builds. *)

\* line 331 with the job filter forgotten
NoWorkflowSkipWorkflowOnly(b, f) ==
    b.Workflows = Nil /\ f.workflow # ""

\* line 331: a build outside any workflow cannot satisfy a workflow or job filter
NoWorkflowSkip(b, f) ==
    b.Workflows = Nil /\ (f.workflow # "" \/ f.jobname # "")

\* line 336 left out: the API's filter=successful is trusted
OutcomeSkipNever(b) == FALSE

\* line 336
OutcomeSkip(b) == b.Outcome # "success"

\* line 341, left operand: is a workflow id latched
Latched(only) == only # ""

\* line 341, right operand; reads b.Workflows
LatchSkip(b, only) == b.Workflows[1].WorkflowID # only

\* line 346, right operand; reads b.Workflows
WorkflowSkip(b, f) == b.Workflows[1].WorkflowName # f.workflow

\* line 351
ShouldLatch(only, f) == only = "" /\ f.workflow # "" /\ ~f.anyFlowID

\* line 357, right operand; reads b.Workflows
JobSkip(b, f) == b.Workflows[1].JobName # f.jobname

\* The results of one iteration.
Skip(only, head) == [verdict |-> "skip", only |-> only, head |-> head]
Match(only, head) == [verdict |-> "match", only |-> only, head |-> head]
\* a field of a nil *workflow is read: Go panics
NilPanic(only) == [verdict |-> "panic", only |-> only, head |-> FALSE]

\* lines 330-379: one iteration, on build b with the latch at only
LoopBody(b, only, f) ==
    IF NoWorkflowSkip(b, f) THEN Skip(only, FALSE)
    ELSE IF OutcomeSkip(b) THEN Skip(only, FALSE)
    ELSE IF Latched(only) /\ b.Workflows = Nil THEN NilPanic(only)
    ELSE IF Latched(only) /\ LatchSkip(b, only) THEN Skip(only, FALSE)
    ELSE IF f.workflow # "" /\ b.Workflows = Nil THEN NilPanic(only)
    ELSE IF f.workflow # "" /\ WorkflowSkip(b, f) THEN Skip(only, FALSE)
    ELSE IF ShouldLatch(only, f) /\ b.Workflows = Nil THEN NilPanic(only)
    ELSE LET head == ShouldLatch(only, f)
             latch == IF head THEN b.Workflows[1].WorkflowID ELSE only
         IN  IF f.jobname # "" /\ b.Workflows = Nil THEN NilPanic(latch)
             ELSE IF f.jobname # "" /\ JobSkip(b, f) THEN Skip(latch, head)
             ELSE Match(latch, head)

\* lines 327-380: the loop from offset k on, with the latch at only; the offset
\* of the build found, -1 if there is none, -2 if the loop panics
RECURSIVE Scan(_, _, _, _)
Scan(bs, f, k, only) ==
    IF k >= Len(bs) THEN -1
    ELSE LET r == LoopBody(bs[k + 1], only, f)
         IN  IF r.verdict = "match" THEN k
             ELSE IF r.verdict = "panic" THEN -2
             ELSE Scan(bs, f, k + 1, r.only)

\* lines 313-400: what circleFindBuild comes to on the decoded build list bs
circleFindBuild(bs, f) ==
    IF Len(bs) = 0 THEN [status |-> "no builds", offset |-> -1]
    ELSE LET k == Scan(bs, f, 0, "")
         IN  IF k = -2 THEN [status |-> "nil workflow", offset |-> k]
             ELSE IF k < 0 THEN [status |-> "no match", offset |-> k]
             ELSE IF bs[k + 1].Revision < RevisionPrefix
                  THEN [status |-> "slice bounds", offset |-> k]
             ELSE [status |-> "returned", offset |-> k]

----------------------------------------------------------------------------
(* gitProject: the project of a git remote.  Strings are sequences of       *)
(* characters.                                                             *)

\* the characters matched by \w
WordChars ==
    {"a", "b", "c", "d", "e", "f", "g", "h", "i", "j", "k", "l", "m", "n", "o", "p", "q",
     "r", "s", "t", "u", "v", "w", "x", "y", "z",
     "A", "B", "C", "D", "E", "F", "G", "H", "I", "J", "K", "L", "M", "N", "O", "P", "Q",
     "R", "S", "T", "U", "V", "W", "X", "Y", "Z",
     "0", "1", "2", "3", "4", "5", "6", "7", "8", "9", "_"}

GitHubCom == <<"g", "i", "t", "h", "u", "b", ".", "c", "o", "m">>
DotGit == <<".", "g", "i", "t">>

\* t stands in s at position p
HasAt(s, p, t) ==
    /\ p + Len(t) - 1 <= Len(s)
    /\ SubSeq(s, p, p + Len(t) - 1) = t

\* \w+ from position p of s, greedy: the first position at or after p that
\* holds no word character
RECURSIVE WordRun(_, _)
WordRun(s, p) ==
    IF p <= Len(s) /\ s[p] \in WordChars THEN WordRun(s, p + 1) ELSE p

\* where the owner starts if github\.com(?:/|:) matches at p
OwnerAt(p) == p + Len(GitHubCom) + 1

\* line 439: github\.com(?:/|:)(\w+/\w+) matches s at position p
ghURLMatches(s, p) ==
    /\ HasAt(s, p, GitHubCom)
    /\ OwnerAt(p) - 1 <= Len(s)
    /\ s[OwnerAt(p) - 1] \in {"/", ":"}
    /\ LET slash == WordRun(s, OwnerAt(p))
       IN  /\ slash > OwnerAt(p)
           /\ slash <= Len(s)
           /\ s[slash] = "/"
           /\ WordRun(s, slash + 1) > slash + 1

\* the group (\w+/\w+) of the match at p
ghURLGroup(s, p) ==
    SubSeq(s, OwnerAt(p), WordRun(s, WordRun(s, OwnerAt(p)) + 1) - 1)

\* strings.Replace(s, t, "", 1)
RemoveFirst(s, t) ==
    LET P == {p \in 1..Len(s) : HasAt(s, p, t)}
    IN  IF P = {} THEN s
        ELSE LET p == CHOOSE q \in P : \A r \in P : q <= r
             IN  SubSeq(s, 1, p - 1) \o SubSeq(s, p + Len(t), Len(s))

\* lines 441-447
gitProject(url) ==
    LET P == {p \in 1..Len(url) : ghURLMatches(url, p)}
    IN  IF P = {} THEN <<>>
        ELSE RemoveFirst(ghURLGroup(url, CHOOSE q \in P : \A r \in P : q <= r), DotGit)

----------------------------------------------------------------------------
(* What the run writes. *)

\* the printable characters of ASCII in the order of their codes, from the
\* space (32) to the tilde (126); the strings of the model are made of these
\* (the grave accent, 96, is written "grave")
ASCII ==
    <<" ", "!", "\"", "#", "$", "%", "&", "'", "(", ")", "*", "+", ",", "-", ".", "/",
      "0", "1", "2", "3", "4", "5", "6", "7", "8", "9", ":", ";", "<", "=", ">", "?",
      "@", "A", "B", "C", "D", "E", "F", "G", "H", "I", "J", "K", "L", "M", "N", "O",
      "P", "Q", "R", "S", "T", "U", "V", "W", "X", "Y", "Z", "[", "\\", "]", "^", "_",
      "grave", "a", "b", "c", "d", "e", "f", "g", "h", "i", "j", "k", "l", "m", "n", "o",
      "p", "q", "r", "s", "t", "u", "v", "w", "x", "y", "z", "{", "|", "}", "~">>

\* the code of the character c
Code(c) == 31 + (CHOOSE k \in 1..Len(ASCII) : ASCII[k] = c)

\* the hexadecimal digits, in order, as net/url writes and reads them
UpperHex ==
    <<"0", "1", "2", "3", "4", "5", "6", "7", "8", "9", "A", "B", "C", "D", "E", "F">>
LowerHex ==
    <<"0", "1", "2", "3", "4", "5", "6", "7", "8", "9", "a", "b", "c", "d", "e", "f">>

\* net/url ishex
HexDigits == {UpperHex[k] : k \in 1..Len(UpperHex)} \cup {LowerHex[k] : k \in 1..Len(LowerHex)}

\* net/url unhex
HexValue(c) == (CHOOSE k \in 1..Len(UpperHex) : UpperHex[k] = c \/ LowerHex[k] = c) - 1

\* the positions of s that hold a "%" not followed by two hexadecimal digits:
\* what net/url unescape rejects as an invalid URL escape
BadEscapes(s) ==
    {p \in 1..Len(s) :
        /\ s[p] = "%"
        /\ ~(p + 2 <= Len(s) /\ s[p + 1] \in HexDigits /\ s[p + 2] \in HexDigits)}

\* the position of the first "#" of s, 0 if it has none
FragmentAt(s) ==
    LET P == {p \in 1..Len(s) : s[p] = "#"}
    IN  IF P = {} THEN 0 ELSE CHOOSE p \in P : \A q \in P : p <= q

\* the three kinds of text that are escaped: the path, a component of the
\* query and the fragment
Modes == {"path", "query", "fragment"}

\* net/url shouldEscape: the characters that are never escaped
Unreserved == WordChars \cup {"-", ".", "~"}

\* net/url shouldEscape: the reserved characters
Reserved == {"$", "&", "+", ",", "/", ":", ";", "=", "?", "@"}

\* net/url shouldEscape: the characters that a fragment holds unescaped
FragmentChars == {"!", "(", ")", "*"}

\* net/url shouldEscape
shouldEscape(c, mode) ==
    IF c \in Unreserved THEN FALSE
    ELSE IF c \in Reserved THEN (IF mode = "path" THEN c = "?" ELSE mode = "query")
    ELSE IF mode = "fragment" /\ c \in FragmentChars THEN FALSE
    ELSE TRUE

\* net/url validEncoded: the characters it lets through whatever the mode
EncodedChars ==
    {"!", "$", "&", "'", "(", ")", "*", "+", ",", ";", "=", ":", "@", "[", "]", "%"}

\* net/url validEncoded: the characters of a valid encoding
ValidChars ==
    [mode \in Modes |->
        {ASCII[k] : k \in {j \in 1..Len(ASCII) :
                              ASCII[j] \in EncodedChars \/ ~shouldEscape(ASCII[j], mode)}}]

\* net/url validEncoded
validEncoded(s, mode) == \A k \in 1..Len(s) : s[k] \in ValidChars[mode]

\* net/url escape, on one character
escapeChar(c, mode) ==
    IF c = " " /\ mode = "query" THEN <<"+">>
    ELSE IF shouldEscape(c, mode)
         THEN <<"%", UpperHex[(Code(c) \div Len(UpperHex)) + 1],
                     UpperHex[(Code(c) % Len(UpperHex)) + 1]>>
    ELSE <<c>>

\* net/url escape
RECURSIVE escape(_, _)
escape(s, mode) ==
    IF s = <<>> THEN <<>> ELSE escapeChar(Head(s), mode) \o escape(Tail(s), mode)

\* url.QueryEscape
QueryEscape(s) == escape(s, "query")

\* net/url escape of unescape, on a string without invalid escape: an escape
\* is decoded and its character is written as escape writes it; in the query
\* a "+" is a space, and is written as a space is
RECURSIVE Reescape(_, _)
Reescape(s, mode) ==
    IF s = <<>> THEN <<>>
    ELSE IF s[1] = "%" THEN
        LET code == Len(UpperHex) * HexValue(s[2]) + HexValue(s[3])
        IN  (IF code \in Code(" ")..Code("~")
             THEN escapeChar(ASCII[code - Code(" ") + 1], mode)
             ELSE <<"%", UpperHex[HexValue(s[2]) + 1], UpperHex[HexValue(s[3]) + 1]>>)
            \o Reescape(SubSeq(s, 4, Len(s)), mode)
    ELSE IF s[1] = "+" /\ mode = "query" THEN <<"+">> \o Reescape(Tail(s), mode)
    ELSE escapeChar(s[1], mode) \o Reescape(Tail(s), mode)

\* url.URL.EscapedPath and EscapedFragment after setPath and setFragment: the
\* text as given if it is a valid encoding, else the escape of what it decodes to
Escaped(s, mode) == IF validEncoded(s, mode) THEN s ELSE Reescape(s, mode)

\* A URL with a circle-token parameter, by the parts of its text that are not
\* fixed: the endpoint, the build or artifact it names, the characters of its
\* path that follow the fixed prefix (for the build list, -repo, "/tree/" and
\* -branch; for the artifact list, -repo; for an artifact, the URL the API
\* gave) and the characters that follow "circle-token=".  The paths of the
\* model hold no "?" and its tokens no "&".
URL(endpoint, n, path, token) ==
    [endpoint |-> endpoint, n |-> n, path |-> path, token |-> token]

\* a URL without a query
PathURL(endpoint, n, path) == [endpoint |-> endpoint, n |-> n, path |-> path]

\* what separates project and branch in buildListURL
Tree == <<"/", "t", "r", "e", "e", "/">>

\* lines 25 and 86-88: os.Expand of buildListURL
buildListURL(proj, branch, token) == URL("builds", 0, proj \o Tree \o branch, token)

\* lines 26 and 86-88: os.Expand of artifactsURL
artifactsURL(proj, n, token) == URL("artifacts", n, proj, token)

\* what stands for a token in a censored URL
Censored == <<"c", "e", "n", "s", "o", "r", "e", "d">>

\* the text of the circle-token parameter of u: what precedes the first "#"
TokenValue(u) ==
    IF FragmentAt(u.token) = 0 THEN u.token
    ELSE SubSeq(u.token, 1, FragmentAt(u.token) - 1)

\* the text of the fragment of u, if the "#" that opens it is in the token
TokenFragment(u) ==
    IF FragmentAt(u.token) = 0 THEN <<>>
    ELSE SubSeq(u.token, FragmentAt(u.token) + 1, Len(u.token))

\* the path of u, up to its fragment
RestPath(u) ==
    IF FragmentAt(u.path) = 0 THEN u.path
    ELSE SubSeq(u.path, 1, FragmentAt(u.path) - 1)

\* the text of the fragment of u that is in the path, if the "#" that opens
\* the fragment is in the path
PathFragment(u) ==
    IF FragmentAt(u.path) = 0 THEN <<>>
    ELSE SubSeq(u.path, FragmentAt(u.path) + 1, Len(u.path))

\* lines 465-468 and 479-482: mutateURL panics on the error of url.Parse, for
\* a bad escape before the fragment ("parse") or in it ("parse fragment"), or
\* on that of url.ParseQuery, for a ";" ("semicolon") or a bad escape
\* ("escape") in the query; "" if it does not
mutateURLPanic(u) ==
    IF BadEscapes(RestPath(u)) # {} THEN "parse"
    ELSE IF FragmentAt(u.path) > 0
         THEN (IF BadEscapes(PathFragment(u)) # {} \/ BadEscapes(u.token) # {}
               THEN "parse fragment" ELSE "")
    ELSE IF BadEscapes(TokenFragment(u)) # {} THEN "parse fragment"
    ELSE IF \E k \in 1..Len(TokenValue(u)) : TokenValue(u)[k] = ";" THEN "semicolon"
    ELSE IF BadEscapes(TokenValue(u)) # {} THEN "escape"
    ELSE ""

\* a line written to stdout or stderr
Line(text, args) == [text |-> text, args |-> args]

\* the text of u before its first "#": what url.Parse parses first, and
\* names in the error of that
CutURL(u) ==
    IF FragmentAt(u.path) > 0 THEN PathURL(u.endpoint, u.n, RestPath(u))
    ELSE [u EXCEPT !.token = TokenValue(u)]

\* what the panic of mutateURL writes: the *url.Error of url.Parse holds the
\* URL up to its fragment for an error before the fragment and the whole URL
\* for an error in it; the errors of url.ParseQuery hold no URL, and that of a
\* bad escape holds the escape (at most three characters from the "%" on)
PanicLine(u) ==
    IF mutateURLPanic(u) = "parse" THEN Line("panic: parse", CutURL(u))
    ELSE IF mutateURLPanic(u) = "parse fragment" THEN Line("panic: parse", u)
    ELSE IF mutateURLPanic(u) = "semicolon"
         THEN Line("panic: invalid semicolon separator in query",
                   [endpoint |-> u.endpoint, n |-> u.n])
    ELSE LET v == TokenValue(u)
             p == CHOOSE q \in BadEscapes(v) : \A r \in BadEscapes(v) : q <= r
             e == IF p + 2 <= Len(v) THEN p + 2 ELSE Len(v)
         IN  Line("panic: invalid URL escape", [token |-> SubSeq(v, p, e)])

\* lines 460-497, for a URL on which it does not panic.  The text is that of
\* safe.String(): path and fragment as EscapedPath and EscapedFragment write
\* them, and no "#" before an empty fragment.  A URL whose path holds a "#"
\* has no query, and its token is a part of its fragment.  Else the query is
\* rewritten by values.Encode() if the circle-token parameter has a value,
\* which mutate overwrites.
mutateURL(u, mutate) ==
    IF FragmentAt(u.path) > 0 THEN
        LET valid == validEncoded(PathFragment(u) \o u.token, "fragment")
        IN  [u EXCEPT
                !.path = Escaped(RestPath(u), "path") \o <<"#">>
                            \o (IF valid THEN PathFragment(u)
                                ELSE Reescape(PathFragment(u), "fragment")),
                !.token = IF valid THEN u.token ELSE Reescape(u.token, "fragment")]
    ELSE
        LET value == IF TokenValue(u) = <<>> THEN <<>>
                     ELSE IF mutate THEN Censored
                     ELSE Reescape(TokenValue(u), "query")
            fragment == IF TokenFragment(u) = <<>> THEN <<>>
                        ELSE <<"#">> \o Escaped(TokenFragment(u), "fragment")
        IN  [u EXCEPT !.path = Escaped(u.path, "path"), !.token = value \o fragment]

\* line 451
censorURL(u) == mutateURL(u, TRUE)

\* line 458
normalizeURL(u) == mutateURL(u, FALSE)

\* lines 93-95, on the text that os.Expand gave
ExpandURL(u) == normalizeURL(u)

\* lines 104-116 (verbosenln, verbosenf): a line written if the verbosity is
\* level or more
verbosenf(v, level, line) == IF level > v THEN <<>> ELSE <<line>>

\* lines 118-119 (verbosef, verboseln): a line written at verbosity 1 or more
verboseln(v, text, args) == verbosenf(v, 1, Line(text, args))

\* log.Fatal(err) for the error of http.Client.Do or http.Get: a *url.Error,
\* whose text holds the URL of the request
FatalURLError(u) == Line("Get", u)

\* the message of the failed search with the empty filters left empty
NotFoundMessageBare(f) ==
    Line("build: failed to find a build matching",
         [workflow |-> f.workflow, jobname |-> f.jobname, branch |-> f.branch])

\* lines 383-392
NotFoundMessage(f) ==
    Line("build: failed to find a build matching",
         [workflow |-> IF f.workflow = "" THEN "*" ELSE f.workflow,
          jobname |-> IF f.jobname = "" THEN "*" ELSE f.jobname,
          branch |-> f.branch])

\* line 314
NoBuildsMessage(f) == Line("no builds found for branch:", [branch |-> f.branch])

\* lines 358-362: the head of the workflow is not the job searched for
HeadMessage(b, f) ==
    Line("build: is a, part of workflow, searching for build",
         [branch |-> f.branch, build |-> b.BuildNum, job |-> b.Workflows[1].JobName,
          workflow |-> b.Workflows[1].WorkflowName, jobname |-> f.jobname])

\* lines 369-376: the build at offset k is the one
FoundMessage(b, f, k) ==
    IF b.Workflows = Nil
    THEN Line("build: workflow-less on branch found a build at offset",
              [branch |-> f.branch, offset |-> k])
    ELSE Line("build: workflow branch found build at offset",
              [workflow |-> b.Workflows[1].WorkflowName, branch |-> f.branch,
               job |-> b.Workflows[1].JobName, offset |-> k])

\* lines 330-379: what one iteration, on the build b at offset k, writes at
\* verbosity v
LoopBodyShown(b, only, f, k, v) ==
    LET r == LoopBody(b, only, f)
    IN  IF r.verdict = "panic" THEN <<>>
        ELSE IF NoWorkflowSkip(b, f) THEN
            verbosenf(v, 2, Line("SKIP, no workflow:", [i |-> k, build |-> b.BuildNum]))
        ELSE IF OutcomeSkip(b) THEN
            verbosenf(v, 2, Line("SKIP: build outcome is",
                                 [i |-> k, build |-> b.BuildNum, outcome |-> b.Outcome]))
        ELSE IF Latched(only) /\ LatchSkip(b, only) THEN
            verbosenf(v, 3, Line("SKIP: workflow-id, need latched workflow-id",
                                 [i |-> k, build |-> b.BuildNum,
                                  id |-> b.Workflows[1].WorkflowID, need |-> only]))
        ELSE IF f.workflow # "" /\ WorkflowSkip(b, f) THEN
            verbosenf(v, 2, Line("SKIP: workflow is, need",
                                 [i |-> k, build |-> b.BuildNum,
                                  workflow |-> b.Workflows[1].WorkflowName,
                                  need |-> f.workflow]))
        ELSE (IF r.head
              THEN verbosenf(v, 2, Line("Note: first match on workflow, workflow id is",
                                        [i |-> k, build |-> b.BuildNum,
                                         workflow |-> f.workflow, id |-> r.only]))
              ELSE <<>>)
             \o (IF r.verdict = "match" THEN <<FoundMessage(b, f, k)>>
                 ELSE IF r.head THEN <<HeadMessage(b, f)>>
                 ELSE verbosenf(v, 2,
                          Line("SKIP, has matching workflow, not yet right jobname",
                               [i |-> k, build |-> b.BuildNum,
                                workflow |-> b.Workflows[1].WorkflowName,
                                job |-> b.Workflows[1].JobName])))

\* lines 327-380: what the loop writes from offset k on, as far as Scan goes
RECURSIVE ScanShown(_, _, _, _, _)
ScanShown(bs, f, k, only, v) ==
    IF k >= Len(bs) THEN <<>>
    ELSE LET r == LoopBody(bs[k + 1], only, f)
         IN  IF r.verdict # "skip" THEN LoopBodyShown(bs[k + 1], only, f, k, v)
             ELSE LoopBodyShown(bs[k + 1], only, f, k, v)
                     \o ScanShown(bs, f, k + 1, r.only, v)

\* lines 292-393: what a call of circleFindBuild for the URL u that finds no
\* build on the decoded build list bs has written
circleFindBuildShown(bs, f, v, u) ==
    verboseln(v, "Build list:", censorURL(u))
    \o (IF Len(bs) = 0 THEN <<NoBuildsMessage(f)>>
        ELSE ScanShown(bs, f, 0, "", v) \o <<NotFoundMessage(f)>>)

----------------------------------------------------------------------------
(* main: the arguments, $VERBOSITY and the switch that validates the flags. *)

\* the decimal digits, in order
Digits == <<"0", "1", "2", "3", "4", "5", "6", "7", "8", "9">>

\* the value of the digit c
DigitValue(c) == (CHOOSE k \in 1..Len(Digits) : Digits[k] = c) - 1

\* s without its sign
Unsigned(s) == IF Len(s) > 0 /\ s[1] \in {"+", "-"} THEN Tail(s) ELSE s

\* the number written by the digits d
RECURSIVE Magnitude(_)
Magnitude(d) ==
    IF d = <<>> THEN 0
    ELSE Len(Digits) * Magnitude(SubSeq(d, 1, Len(d) - 1)) + DigitValue(d[Len(d)])

\* strconv.Atoi, on the numbers an int holds
Atoi(s) ==
    LET d == Unsigned(s)
    IN  IF Len(d) = 0 \/ \E k \in 1..Len(d) : \A j \in 1..Len(Digits) : Digits[j] # d[k]
        THEN [ok |-> FALSE, n |-> 0]
        ELSE [ok |-> TRUE, n |-> IF s[1] = "-" THEN 0 - Magnitude(d) ELSE Magnitude(d)]

\* lines 189-196: the verbosity, "error" if $VERBOSITY does not parse
Verbosity(v, env) ==
    IF ~v THEN [ok |-> TRUE, n |-> 0]
    ELSE IF env = <<>> THEN [ok |-> TRUE, n |-> 1]
    ELSE Atoi(env)

----------------------------------------------------------------------------
(* main: the switch that validates the flags. *)----------------------------------------------------------------------------
(* main: the switch that validates the flags. *)

\* the switch with -build 0 taken for a build number
MainSwitchFromZero(proj, branch, name, list, token, count, num) ==
    IF proj = <<>> THEN "no project"
    ELSE IF branch = <<>> THEN "no branch"
    ELSE IF name = <<>> /\ ~list THEN "no artifact"
    ELSE IF token = <<>> THEN "no token"
    ELSE IF count < 1 THEN "bad depth"
    ELSE IF num >= 0 THEN "bypass"
    ELSE "resolve"

\* lines 226-251: which case of the switch runs
MainSwitch(proj, branch, name, list, token, count, num) ==
    IF proj = <<>> THEN "no project"
    ELSE IF branch = <<>> THEN "no branch"
    ELSE IF name = <<>> /\ ~list THEN "no artifact"
    ELSE IF token = <<>> THEN "no token"
    ELSE IF count < 1 THEN "bad depth"
    ELSE IF num > 0 THEN "bypass"
    ELSE "resolve"

----------------------------------------------------------------------------
(* downloadArtifact. *)

\* strings.HasPrefix in the place of strings.HasSuffix
HasSuffixAsPrefix(s, suffix) ==
    /\ Len(suffix) <= Len(s)
    /\ SubSeq(s, 1, Len(suffix)) = suffix

\* strings.HasSuffix(s, suffix)
HasSuffix(s, suffix) ==
    /\ Len(suffix) <= Len(s)
    /\ SubSeq(s, Len(s) - Len(suffix) + 1, Len(s)) = suffix

\* url.Parse(a.URL) returns no error.  The characters of the model hold no hex
\* digit, so a "%" never starts a valid escape and url.Parse rejects the URL.
URLParses(u) == BadEscapes(u) = {}

\* the iteration without the test of dryRun
DownloadCaseNoDryRun(a, name, dry) ==
    IF ~HasSuffix(a.URL, name) THEN "continue"
    ELSE IF ~URLParses(a.URL) THEN "url parse"
    ELSE "fetch"

\* lines 406-421: what one iteration of the range loop does with artifact a
DownloadCase(a, name, dry) ==
    IF ~HasSuffix(a.URL, name) THEN "continue"
    ELSE IF ~URLParses(a.URL) THEN "url parse"
    ELSE IF dry THEN "dry run"
    ELSE "fetch"

----------------------------------------------------------------------------
(* The run. *)

Request(kind, n) == [kind |-> kind, n |-> n]

\* log.Fatal, or a panic: the process ends
Exit(status, why) ==
    /\ pc' = "exit"
    /\ exitStatus' = status
    /\ err' = why

\* what exec.Command("git", ...).Output() can come to
GitOutcomes == {"ok", "exec failed"}

\* line 181: flag.Parse, with flag.ExitOnError, ends the run on a flag it does
\* not know or a value it cannot parse (status 2) and on -h (status 0)
ParseOutcomes == {"ok", "bad flag", "help"}

\* lines 181-251: the flags are parsed, the arguments are counted, the
\* verbosity is set, the project is taken from the git remote if -repo is not
\* given, then the flags are validated
Validate ==
    /\ pc = "main"
    /\ \E g \in GitOutcomes :
         LET v == Verbosity(flagVerbose, envVerbosity)
         IN
         IF flagParse # "ok" THEN
              /\ Exit(IF flagParse = "help" THEN 0 ELSE 2, flagParse)
              /\ UNCHANGED <<project, verbosity>>
         ELSE IF stray THEN
              /\ Exit(1, "stray arguments")
              /\ UNCHANGED <<project, verbosity>>
         ELSE IF ~v.ok THEN
              /\ Exit(1, "parse $VERBOSITY")
              /\ verbosity' = v.n
              /\ UNCHANGED project
         ELSE IF project = <<>> /\ g = "exec failed" THEN
              /\ Exit(1, "exec git")
              /\ verbosity' = v.n
              /\ UNCHANGED project
         ELSE LET proj == IF project = <<>> THEN gitProject(remote) ELSE project
                  case == MainSwitch(proj, filter.branch, artifactName, flagListArtifacts,
                                     circleToken, retrieveBuildsCount, buildNum)
              IN  /\ project' = proj
                  /\ verbosity' = v.n
                  /\ IF case = "bypass" THEN
                          /\ pc' = "artifacts"
                          /\ UNCHANGED <<exitStatus, err>>
                     ELSE IF case = "resolve" THEN
                          /\ pc' = "findBuild"
                          /\ UNCHANGED <<exitStatus, err>>
                     ELSE Exit(1, case)
    /\ UNCHANGED <<flagVars, buildNum, scanVars, dlVars, requests, shown>>

\* what a GET of a JSON document can come to
GetOutcomes == {"ok", "transport", "decode"}

\* lines 299-312: in circleFindBuild the body is read (io.Copy) before it is
\* decoded
BuildsOutcomes == GetOutcomes \cup {"copy"}

\* line 306: log.Fatal on the error of io.Copy
CopyErrorLine == Line("read error", [response |-> "builds"])

\* line 311: log.Fatalf("%s: %s", err, body.String())
UnmarshalErrorLine == Line("decode error: body", [response |-> "builds"])

\* lines 292-328: the URL is expanded, the build list is requested, read and
\* decoded
FetchBuilds ==
    /\ pc = "findBuild"
    /\ LET raw == buildListURL(project, filter.branch, circleToken)
           u == ExpandURL(raw)
           said == shown \o verboseln(verbosity, "Build list:", censorURL(u))
       IN
       IF mutateURLPanic(raw) # "" THEN
            /\ Exit(2, "url panic")
            /\ shown' = Append(shown, PanicLine(raw))
            /\ UNCHANGED <<requests, scanVars>>
       ELSE /\ requests' = Append(requests, Request("builds", 0))
            /\ \E o \in BuildsOutcomes :
                 IF o # "ok" THEN
                      /\ Exit(1, o)
                      /\ shown' = Append(said,
                                     IF o = "transport" THEN FatalURLError(u)
                                     ELSE IF o = "copy" THEN CopyErrorLine
                                     ELSE UnmarshalErrorLine)
                      /\ UNCHANGED scanVars
                 ELSE IF Len(circleBuilds) = 0 THEN
                      /\ Exit(1, "no builds")
                      /\ shown' = Append(said, NoBuildsMessage(filter))
                      /\ builds' = circleBuilds
                      /\ UNCHANGED <<i, onlyWorkflowID, foundBuild, heads>>
                 ELSE /\ builds' = circleBuilds
                      /\ i' = 0
                      /\ onlyWorkflowID' = ""
                      /\ foundBuild' = -1
                      /\ heads' = {}
                      /\ shown' = said
                      /\ pc' = "scan"
                      /\ UNCHANGED <<exitStatus, err>>
    /\ UNCHANGED <<inputVars, buildNum, dlVars>>

\* lines 329-380: one iteration of the loop
ScanStep ==
    /\ pc = "scan"
    /\ foundBuild < 0
    /\ i < Len(builds)
    /\ LET r == LoopBody(builds[i + 1], onlyWorkflowID, filter)
       IN  /\ onlyWorkflowID' = r.only
           /\ heads' = IF r.head THEN heads \cup {i} ELSE heads
           /\ shown' = shown \o LoopBodyShown(builds[i + 1], onlyWorkflowID, filter, i,
                                              verbosity)
           /\ IF r.verdict = "panic" THEN
                   /\ Exit(2, "nil workflow")
                   /\ UNCHANGED <<i, foundBuild>>
              ELSE IF r.verdict = "match" THEN
                   /\ foundBuild' = i
                   /\ UNCHANGED <<i, pc, exitStatus, err>>
              ELSE /\ i' = i + 1
                   /\ UNCHANGED <<foundBuild, pc, exitStatus, err>>
    /\ UNCHANGED <<inputVars, buildNum, builds, dlVars, requests>>

\* lines 395-396: written with -v once a build is found
SubjectLine(b) == Line("Build Subject, Build Finished", [build |-> b.BuildNum])

\* line 398
ResultLine(b, f) == Line("build: branch: rev:", [build |-> b.BuildNum, branch |-> f.branch])

\* the loop is over, with the failure to find a build logged but not fatal
FinishFindBuildGoesOn ==
    /\ pc = "scan"
    /\ foundBuild >= 0 \/ i >= Len(builds)
    /\ IF foundBuild < 0 THEN
            /\ pc' = "artifacts"
            /\ shown' = Append(shown, NotFoundMessage(filter))
            /\ UNCHANGED <<buildNum, exitStatus, err>>
       ELSE LET b == builds[foundBuild + 1]
                said == shown \o verbosenf(verbosity, 1, SubjectLine(b))
            IN  IF b.Revision < RevisionPrefix THEN
                     /\ Exit(2, "slice bounds")
                     /\ shown' = said
                     /\ UNCHANGED buildNum
                ELSE /\ buildNum' = b.BuildNum
                     /\ shown' = Append(said, ResultLine(b, filter))
                     /\ pc' = "artifacts"
                     /\ UNCHANGED <<exitStatus, err>>
    /\ UNCHANGED <<inputVars, scanVars, dlVars, requests>>

\* lines 382-400 and 249-250: the loop is over
FinishFindBuild ==
    /\ pc = "scan"
    /\ foundBuild >= 0 \/ i >= Len(builds)
    /\ IF foundBuild < 0 THEN
            /\ Exit(1, "no match")
            /\ shown' = Append(shown, NotFoundMessage(filter))
            /\ UNCHANGED buildNum
       ELSE LET b == builds[foundBuild + 1]
                said == shown \o verbosenf(verbosity, 1, SubjectLine(b))
            IN  IF b.Revision < RevisionPrefix THEN
                     /\ Exit(2, "slice bounds")
                     /\ shown' = said
                     /\ UNCHANGED buildNum
                ELSE /\ buildNum' = b.BuildNum
                     /\ shown' = Append(said, ResultLine(b, filter))
                     /\ pc' = "artifacts"
                     /\ UNCHANGED <<exitStatus, err>>
    /\ UNCHANGED <<inputVars, scanVars, dlVars, requests>>

\* lines 253-283: the URL is expanded, the artifact list is requested and
\* decoded
FetchArtifacts ==
    /\ pc = "artifacts"
    /\ LET raw == artifactsURL(project, buildNum, circleToken)
           u == ExpandURL(raw)
           said == shown \o verboseln(verbosity, "Artifact list:", censorURL(u))
           listed == IF flagListArtifacts
                     THEN [k \in 1..Len(circleArtifacts) |->
                              Line("node_index: path URL",
                                   PathURL("artifact", k - 1, circleArtifacts[k].URL))]
                     ELSE <<>>
       IN
       IF mutateURLPanic(raw) # "" THEN
            /\ Exit(2, "url panic")
            /\ shown' = Append(shown, PanicLine(raw))
            /\ UNCHANGED <<requests, artifacts, ai>>
       ELSE /\ requests' = Append(requests, Request("artifacts", buildNum))
            /\ \E o \in GetOutcomes :
                 IF o # "ok" THEN
                      /\ Exit(1, o)
                      /\ shown' = IF o = "transport" THEN Append(said, FatalURLError(u))
                                  ELSE said
                      /\ UNCHANGED <<artifacts, ai>>
                 ELSE IF artifactName = <<>> THEN
                      /\ Exit(0, "")
                      /\ shown' = said \o listed
                      /\ artifacts' = circleArtifacts
                      /\ UNCHANGED ai
                 ELSE /\ artifacts' = circleArtifacts
                      /\ shown' = said \o listed
                      /\ ai' = 0
                      /\ pc' = "download"
                      /\ UNCHANGED <<exitStatus, err>>
    /\ UNCHANGED <<inputVars, buildNum, scanVars, outputCreated>>

\* what http.Get, os.Create and io.Copy can come to
DownloadOutcomes == {"get failed", "not 200", "create failed", "copy failed", "ok"}

\* lines 404-435 and 285-288: one iteration of the range loop
DownloadStep ==
    /\ pc = "download"
    /\ ai < Len(artifacts)
    /\ LET a == artifacts[ai + 1]
           case == DownloadCase(a, artifactName, dryRun)
           said == shown \o verboseln(verbosity, "Artifact URL:",
                                      PathURL("artifact", ai, a.URL))
       IN  IF case = "continue" THEN
                /\ ai' = ai + 1
                /\ shown' = said
                /\ UNCHANGED <<pc, exitStatus, err, requests, outputCreated>>
           ELSE IF case = "url parse" THEN
                /\ Exit(1, case)
                /\ shown' = Append(said, Line("parse", PathURL("artifact", ai, a.URL)))
                /\ UNCHANGED <<ai, requests, outputCreated>>
           ELSE IF case = "dry run" THEN
                /\ Exit(0, "")
                /\ shown' = said
                /\ UNCHANGED <<ai, requests, outputCreated>>
           ELSE /\ requests' = Append(requests, Request("download", ai))
                /\ UNCHANGED ai
                /\ \E o \in DownloadOutcomes :
                     /\ outputCreated' = (o \in {"copy failed", "ok"})
                     /\ shown' =
                          IF o = "get failed" THEN
                              Append(said, FatalURLError(
                                  URL("download", ai, Escaped(a.URL, "path"),
                                      QueryEscape(circleToken))))
                          ELSE IF o = "not 200" THEN
                              Append(said, Line("http: remote server responded",
                                                PathURL("status", 0, <<>>)))
                          ELSE said
                     /\ IF o = "ok" THEN Exit(0, "") ELSE Exit(1, o)
    /\ UNCHANGED <<inputVars, buildNum, scanVars, artifacts>>

\* lines 436 and 285-287: no artifact matched
DownloadNotFound ==
    /\ pc = "download"
    /\ ai >= Len(artifacts)
    /\ Exit(1, "no artifact")
    /\ UNCHANGED <<inputVars, buildNum, scanVars, dlVars, requests, shown>>

Next ==
    \/ Validate
    \/ FetchBuilds
    \/ ScanStep
    \/ FinishFindBuild
    \/ FetchArtifacts
    \/ DownloadStep
    \/ DownloadNotFound

----------------------------------------------------------------------------
(* The inputs of a run: the flags, the git remote and what the API holds.   *)
(* Eight families of runs are explored: the build search over every short  *)
(* build list, over longer lists of one workflow's builds, over such lists  *)
(* with a short revision and at the higher verbosities, the flag validation *)
(* over every combination of flags, the artifact download over every short  *)
(* artifact list, the project detection over every short owner and          *)
(* repository name, and the URLs over projects, branches and tokens that    *)
(* hold a "#" or a "%".                                                     *)

\* const defaultRetrieveCount
defaultRetrieveCount == 10

\* builds[i].Workflows: nil, or the workflow, its id (possibly empty) and the job
WorkflowInfos ==
    {Nil} \cup {<<Workflow(n, id, j)>> :
                  n \in {"A", "B"}, id \in {"", "x0", "x1"}, j \in {"build", "deploy"}}

\* builds of workflow A only, each with a workflow id
OneWorkflowInfos ==
    {<<Workflow("A", id, j)>> : id \in {"x0", "x1"}, j \in {"build", "deploy"}}

\* builds[i].Outcome
Outcomes == {"success", "failed"}

\* lengths of vcs_revision: one character short of Revision[:8], and a full hash
ShortRevision == RevisionPrefix - 1
FullRevision == 5 * RevisionPrefix

\* A build list, newest first: build numbers n down to 1; the build at s (if any)
\* has a short revision
BuildList(n, s, w, o) ==
    [k \in 1..n |->
        Build(n + 1 - k, IF k = s THEN ShortRevision ELSE FullRevision, w[k], o[k])]

\* values of -branch and of the token
Master == <<"m", "a", "s", "t", "e", "r">>
Feature1 == <<"f", "e", "a", "t", "u", "r", "e", "1">>
Tok == <<"t", "o", "k">>

\* -workflow, -job, -ignore-later-workflows
Filters ==
    {FilterSet(Master, w, j, a) : w \in {"", "A"}, j \in {"", "build"}, a \in BOOLEAN}

\* the characters of artifact names and URLs
Chars == {"x", "%"}

\* artifact URLs
URLs == SeqsUpTo(Chars, MaxURLLen)

NbioCart == <<"n", "b", "i", "o", "/", "c", "a", "r", "t">>

\* the three forms of remote: https, ssh, and https on another host
HttpsRemote(owner, repo) ==
    <<"h", "t", "t", "p", "s", ":", "/", "/">> \o GitHubCom \o <<"/">>
        \o owner \o <<"/">> \o repo
SshRemote(owner, repo) ==
    <<"g", "i", "t", "@">> \o GitHubCom \o <<":">> \o owner \o <<"/">> \o repo \o DotGit
OtherRemote(owner, repo) ==
    <<"h", "t", "t", "p", "s", ":", "/", "/", "g", "i", "t", "l", "a", "b", ".", "c", "o", "m", "/">>
        \o owner \o <<"/">> \o repo \o DotGit

\* the characters of owner and repository names
NameChars == {"a", "-", "."}

\* owner and repository names
Names == SeqsUpTo(NameChars, MaxNameLen) \ {<<>>}

\* the state of main once the flags are parsed
Started ==
    /\ pc = "main"
    /\ verbosity = 0
    /\ buildNum = flagBuild
    /\ builds = <<>>
    /\ i = 0
    /\ onlyWorkflowID = ""
    /\ foundBuild = -1
    /\ heads = {}
    /\ artifacts = <<>>
    /\ ai = 0
    /\ requests = <<>>
    /\ shown = <<>>
    /\ outputCreated = FALSE
    /\ exitStatus = -1
    /\ err = ""

\* flags that pass the switch and ask for the artifact list of the build found
SearchFlags ==
    /\ project = NbioCart
    /\ remote = SshRemote(<<"n", "b", "i", "o">>, <<"c", "a", "r", "t">>)
    /\ artifactName = <<>>
    /\ circleToken = Tok
    /\ retrieveBuildsCount = defaultRetrieveCount
    /\ flagBuild = 0
    /\ flagListArtifacts = TRUE
    /\ dryRun = FALSE
    /\ flagParse = "ok"
    /\ stray = FALSE
    /\ flagVerbose = TRUE
    /\ filter \in Filters
    /\ circleArtifacts = <<Artifact(<<"x">>)>>

\* the build search, over every build list of up to MaxBuilds builds with full
\* revisions, and every list of one build with a short revision
ScanInputs ==
    /\ SearchFlags
    /\ envVerbosity = <<>>
    /\ \E n \in 0..MaxBuilds : \E s \in IF n = 1 THEN {0, 1} ELSE {0} :
         \E w \in [1..n -> WorkflowInfos] : \E o \in [1..n -> Outcomes] :
            circleBuilds = BuildList(n, s, w, o)

\* the build search, over the lists of MaxBuilds + 1 builds of one workflow
DeepScanInputs ==
    /\ SearchFlags
    /\ envVerbosity = <<>>
    /\ \E w \in [1..(MaxBuilds + 1) -> OneWorkflowInfos] :
         \E o \in [1..(MaxBuilds + 1) -> Outcomes] :
            circleBuilds = BuildList(MaxBuilds + 1, 0, w, o)

\* the search for job build of workflow A, over the lists of MaxBuilds + 1 green
\* builds of that workflow, one of them with a short revision
ShortRevisionInputs ==
    /\ SearchFlags
    /\ envVerbosity = <<>>
    /\ filter.workflow = "A" /\ filter.jobname = "build"
    /\ \E s \in 1..(MaxBuilds + 1) :
         \E w \in [1..(MaxBuilds + 1) -> OneWorkflowInfos] :
            circleBuilds = BuildList(MaxBuilds + 1, s, w,
                                     [k \in 1..(MaxBuilds + 1) |-> "success"])

\* builds of workflow A, of another workflow and of none
VerboseWorkflowInfos ==
    {Nil, <<Workflow("B", "x0", "build")>>} \cup OneWorkflowInfos

\* the build search with $VERBOSITY at 2 and 3, over the lists of MaxBuilds builds
VerboseInputs ==
    /\ SearchFlags
    /\ envVerbosity \in {<<"2">>, <<"3">>}
    /\ \E w \in [1..MaxBuilds -> VerboseWorkflowInfos] :
         \E o \in [1..MaxBuilds -> Outcomes] :
            circleBuilds = BuildList(MaxBuilds, 0, w, o)

\* every combination of flags, over an empty and a one-build history
MainInputs ==
    /\ project \in {<<>>, NbioCart}
    /\ remote = OtherRemote(<<"n", "b", "i", "o">>, <<"c", "a", "r", "t">>)
    /\ artifactName \in {<<>>, <<"x">>}
    /\ circleToken \in {<<>>, Tok}
    /\ retrieveBuildsCount \in {0, defaultRetrieveCount}
    /\ flagBuild \in {-1, 0, 42}
    /\ flagListArtifacts \in BOOLEAN
    /\ dryRun \in BOOLEAN
    /\ flagParse \in ParseOutcomes
    /\ stray \in BOOLEAN
    /\ flagVerbose \in BOOLEAN
    /\ envVerbosity \in {<<>>, <<"t", "w", "o">>}
    /\ filter \in {FilterSet(b, "", "", FALSE) : b \in {<<>>, Master, Feature1}}
    /\ circleBuilds \in {<<>>, BuildList(1, 0, <<Nil>>, <<"success">>)}
    /\ circleArtifacts = <<Artifact(<<"x">>)>>

\* the download, for a given build number, over every artifact list of up to
\* MaxArtifacts URLs
DownloadInputs ==
    /\ project = NbioCart
    /\ remote = SshRemote(<<"n", "b", "i", "o">>, <<"c", "a", "r", "t">>)
    /\ artifactName \in {<<"x">>, <<"x", "x">>}
    /\ circleToken = Tok
    /\ retrieveBuildsCount = defaultRetrieveCount
    /\ flagBuild = 42
    /\ flagListArtifacts = FALSE
    /\ dryRun \in BOOLEAN
    /\ flagParse = "ok"
    /\ stray = FALSE
    /\ flagVerbose = TRUE
    /\ envVerbosity = <<>>
    /\ filter = FilterSet(Master, "", "", FALSE)
    /\ circleBuilds = <<>>
    /\ \E n \in 0..MaxArtifacts : \E u \in [1..n -> URLs] :
         circleArtifacts = [k \in 1..n |-> Artifact(u[k])]

\* the project taken from the git remote, for a given build number, over every
\* owner and repository name of up to MaxNameLen characters
GitInputs ==
    /\ project = <<>>
    /\ \E owner \in Names : \E repo \in Names :
         remote \in {HttpsRemote(owner, repo), SshRemote(owner, repo),
                     OtherRemote(owner, repo)}
    /\ artifactName = <<>>
    /\ circleToken = Tok
    /\ retrieveBuildsCount = defaultRetrieveCount
    /\ flagBuild = 42
    /\ flagListArtifacts = TRUE
    /\ dryRun = FALSE
    /\ flagParse = "ok"
    /\ stray = FALSE
    /\ flagVerbose = FALSE
    /\ envVerbosity = <<>>
    /\ filter = FilterSet(Master, "", "", FALSE)
    /\ circleBuilds = <<>>
    /\ circleArtifacts = <<Artifact(<<"x">>)>>

\* values of -repo, -branch and the token with a "#" or a bad escape
HashProject == <<"a", "/", "b", "#">>
EscapeProject == <<"a", "/", "%", "z", "z">>
HashBranch == <<"a", "#">>
EscapeBranch == <<"%", "z", "z">>
HashToken == <<"t", "#", "k">>
FragmentToken == <<"#", "k">>
EscapeToken == <<"t", "%", "z", "z">>
HashEscapeToken == <<"t", "#", "%">>
LastHashToken == <<"t", "#">>
SemicolonToken == <<"t", ";">>

\* the URLs of the API, for a build to find or a given build number, over
\* projects, branches and tokens with a "#" or a bad escape
URLInputs ==
    /\ project \in {NbioCart, HashProject, EscapeProject}
    /\ remote = SshRemote(<<"n", "b", "i", "o">>, <<"c", "a", "r", "t">>)
    /\ artifactName = <<"x">>
    /\ circleToken \in {Tok, HashToken, FragmentToken, EscapeToken, HashEscapeToken,
                        LastHashToken, SemicolonToken}
    /\ retrieveBuildsCount = defaultRetrieveCount
    /\ flagBuild \in {0, 42}
    /\ flagListArtifacts = FALSE
    /\ dryRun = FALSE
    /\ flagParse = "ok"
    /\ stray = FALSE
    /\ flagVerbose \in BOOLEAN
    /\ envVerbosity = <<>>
    /\ filter \in {FilterSet(b, "", "", FALSE) : b \in {Master, HashBranch, EscapeBranch}}
    /\ circleBuilds = BuildList(1, 0, <<Nil>>, <<"success">>)
    /\ circleArtifacts = <<Artifact(<<"x">>)>>

Init ==
    /\ \/ ScanInputs
       \/ DeepScanInputs
       \/ ShortRevisionInputs
       \/ VerboseInputs
       \/ MainInputs
       \/ DownloadInputs
       \/ GitInputs
       \/ URLInputs
    /\ Started

Spec == Init /\ [][Next]_vars

----------------------------------------------------------------------------
(* Shapes of the state. *)

TypeOK ==
    /\ pc \in {"main", "findBuild", "scan", "artifacts", "download", "exit"}
    /\ exitStatus \in {-1, 0, 1, 2}
    /\ (exitStatus = -1) = (pc # "exit")
    /\ i \in 0..Len(builds)
    /\ foundBuild \in -1..(Len(builds) - 1)
    /\ ai \in 0..Len(artifacts)
    /\ heads \subseteq 0..(Len(builds) - 1)

----------------------------------------------------------------------------
(* Vocabulary of the properties.  These are stated on the build list and   *)
(* the observable course of the run, not through the operators above.      *)

\* circleFindBuild was called: the first request asked for the build list
Called == Len(requests) > 0 /\ requests[1].kind = "builds"

\* circleFindBuild received and decoded a build list and is done with it
ScanOver ==
    /\ Called
    /\ pc # "scan"
    /\ ~(Len(requests) = 1 /\ err \in {"transport", "copy", "decode"})

\* circleFindBuild returned a build number to main: the artifact list is about
\* to be requested, or was, or its URL made the run panic
Returned == Called /\ (pc = "artifacts" \/ Len(requests) > 1 \/ err = "url panic")

\* resolution failed with the not-found error
NotFound == pc = "exit" /\ exitStatus = 1 /\ err \in {"no builds", "no match"}

Offsets == 0..(Len(builds) - 1)

\* the least offset of a set of offsets, -1 if there is none
First(S) == IF S = {} THEN -1 ELSE CHOOSE k \in S : \A j \in S : k <= j

Green(k) == builds[k + 1].Outcome = "success"
InWorkflow(k) == builds[k + 1].Workflows # Nil
Named(k) == InWorkflow(k) /\ builds[k + 1].Workflows[1].WorkflowName = filter.workflow
InJob(k) == InWorkflow(k) /\ builds[k + 1].Workflows[1].JobName = filter.jobname
Instance(k) == builds[k + 1].Workflows[1].WorkflowID

\* the offsets of the builds that carry the build number returned to main
ReturnedOffsets == {k \in Offsets : builds[k + 1].BuildNum = buildNum}

\* main got the build number of the build at offset k
ReturnedAt(k) == Returned /\ k >= 0 /\ ReturnedOffsets = {k}

\* the first green build of the requested workflow
WorkflowHead == First({k \in Offsets : Green(k) /\ Named(k)})

\* the requests of one kind made so far
RequestsOf(kind) == {k \in 1..Len(requests) : requests[k].kind = kind}

----------------------------------------------------------------------------
(* The build search. *)

\* C1: with a workflow filter and without -ignore-later-workflows, the build
\* returned carries the workflow id of the first green build of the requested
\* workflow; a build of another workflow instance is never returned.
C1_LatchedInstance ==
    (filter.workflow # "" /\ ~filter.anyFlowID /\ Returned) =>
        /\ WorkflowHead >= 0
        /\ \A k \in ReturnedOffsets : InWorkflow(k) /\ Instance(k) = Instance(WorkflowHead)

\* the build C2 expects: green, of the requested workflow, of the instance of
\* the first green build of that workflow, and of the requested job
LatchedTarget ==
    First({k \in Offsets :
             Green(k) /\ Named(k) /\ Instance(k) = Instance(WorkflowHead) /\ InJob(k)})

\* C2: with workflow and job filters and without -ignore-later-workflows, the
\* search returns the build number of the first green build of the requested
\* workflow, of the head's instance and of the requested job, and fails with
\* the not-found error when there is none.
C2_LatchedJob ==
    (filter.workflow # "" /\ filter.jobname # "" /\ ~filter.anyFlowID /\ ScanOver) =>
        IF LatchedTarget >= 0 THEN ReturnedAt(LatchedTarget) ELSE NotFound

\* C3: a build number returned is that of a green build; when no build of the
\* list is green (or the list is empty) the search fails with the not-found
\* error and the artifact list is never requested.
C3_OnlyGreen ==
    /\ Returned => \E k \in ReturnedOffsets : Green(k)
    /\ (ScanOver /\ \A k \in Offsets : ~Green(k)) =>
            NotFound /\ RequestsOf("artifacts") = {}

\* C3 happens: a non-empty list without a green build was searched to its end
C3_Witness ==
    /\ ScanOver
    /\ Len(builds) = MaxBuilds
    /\ \A k \in Offsets : ~Green(k)
    /\ err = "no match"

\* C4: without workflow and job filters, and a green build in the list, the
\* search returns the build number of the first green build, inside a workflow
\* or not, with or without -ignore-later-workflows.
C4_FirstGreen ==
    (filter.workflow = "" /\ filter.jobname = "" /\ ScanOver
        /\ \E k \in Offsets : Green(k)) =>
        ReturnedAt(First({k \in Offsets : Green(k)}))

\* C5: with a job filter and no workflow filter, no workflow id is ever latched
\* and the search returns the build number of the first green build that is in
\* a workflow and of the requested job, whatever its workflow name and id.
C5_JobOnly ==
    (filter.jobname # "" /\ filter.workflow = "") =>
        /\ onlyWorkflowID = ""
        /\ (ScanOver /\ \E k \in Offsets : Green(k) /\ InJob(k)) =>
                ReturnedAt(First({k \in Offsets : Green(k) /\ InJob(k)}))

\* a build that satisfies the filters set, whatever its workflow instance
Matches(k) ==
    /\ Green(k)
    /\ filter.workflow # "" => Named(k)
    /\ filter.jobname # "" => InJob(k)

\* C6: with -ignore-later-workflows no workflow id is ever latched, and the
\* search returns the first green build of the requested workflow and job,
\* whatever its workflow instance and those of the builds before it.
C6_AnyGeneration ==
    filter.anyFlowID =>
        /\ onlyWorkflowID = ""
        /\ (ScanOver /\ \E k \in Offsets : Matches(k)) =>
                ReturnedAt(First({k \in Offsets : Matches(k)}))

----------------------------------------------------------------------------
(* What is left of C1, C2, C4, C5 and C6 once the two defects they meet are *)
(* set aside: the search selects the build they name.                      *)

\* the search ended in the panic of Revision[:8]
SliceBounds == pc = "exit" /\ err = "slice bounds"

\* the first green build of the requested workflow has an empty workflow id,
\* which the search cannot tell from no latch at all
EmptyHead == WorkflowHead >= 0 /\ Instance(WorkflowHead) = ""

\* main got the build number of the build at offset k, or the search selected
\* that build and panicked on its revision
SelectedAt(k) == IF SliceBounds THEN foundBuild = k ELSE ReturnedAt(k)

LatchedInstanceUnlessEmptyHead ==
    (filter.workflow # "" /\ ~filter.anyFlowID /\ Returned /\ ~EmptyHead) =>
        /\ WorkflowHead >= 0
        /\ \A k \in ReturnedOffsets : InWorkflow(k) /\ Instance(k) = Instance(WorkflowHead)

LatchedJobSelected ==
    (filter.workflow # "" /\ filter.jobname # "" /\ ~filter.anyFlowID /\ ScanOver
        /\ ~EmptyHead) =>
        IF LatchedTarget >= 0 THEN SelectedAt(LatchedTarget) ELSE NotFound

FirstGreenSelected ==
    (filter.workflow = "" /\ filter.jobname = "" /\ ScanOver
        /\ \E k \in Offsets : Green(k)) =>
        SelectedAt(First({k \in Offsets : Green(k)}))

JobOnlySelected ==
    (filter.jobname # "" /\ filter.workflow = "" /\ ScanOver
        /\ \E k \in Offsets : Green(k) /\ InJob(k)) =>
        SelectedAt(First({k \in Offsets : Green(k) /\ InJob(k)}))

AnyGenerationSelected ==
    (filter.anyFlowID /\ ScanOver /\ \E k \in Offsets : Matches(k)) =>
        SelectedAt(First({k \in Offsets : Matches(k)}))

----------------------------------------------------------------------------
(* main. *)

\* the run reaches the switch of main, and the flags other than -build pass it
OtherFlagsValid ==
    /\ flagParse = "ok"
    /\ ~stray
    /\ Verbosity(flagVerbose, envVerbosity).ok
    /\ project # <<>>
    /\ filter.branch # <<>>
    /\ artifactName # <<>> \/ flagListArtifacts
    /\ circleToken # <<>>
    /\ retrieveBuildsCount >= 1

\* the URL of the artifact list of build n is one that parses
Expands(n) == mutateURLPanic(artifactsURL(project, n, circleToken)) = ""

\* C7: with -build n, n > 0, and valid flags otherwise, the build list is never
\* requested, circleFindBuild is never entered and the artifact list is
\* requested for build n (the first thing the run does after the switch, if
\* the URL of that list parses); with n <= 0 the artifact list is requested
\* only for the build number circleFindBuild returned.
C7_Bypass ==
    /\ flagBuild > 0 =>
          /\ RequestsOf("builds") = {}
          /\ pc \notin {"findBuild", "scan"}
          /\ builds = <<>> /\ foundBuild = -1
          /\ \A k \in RequestsOf("artifacts") : requests[k].n = flagBuild
    /\ (flagBuild > 0 /\ OtherFlagsValid /\ pc \notin {"main", "artifacts"}) =>
          IF Expands(flagBuild)
          THEN Len(requests) >= 1 /\ requests[1] = Request("artifacts", flagBuild)
          ELSE requests = <<>> /\ exitStatus = 2
    /\ flagBuild <= 0 =>
          \A k \in RequestsOf("artifacts") :
              /\ k = 2
              /\ requests[1] = Request("builds", 0)
              /\ foundBuild >= 0
              /\ requests[k].n = builds[foundBuild + 1].BuildNum

\* C7 happens: a run with -build 42 listed the artifacts of build 42 and ended well
C7_Witness ==
    /\ flagBuild > 0
    /\ pc = "exit"
    /\ exitStatus = 0
    /\ Len(requests) >= 1
    /\ requests[1] = Request("artifacts", flagBuild)

\* the exits of main before the switch
EarlyExits == {"bad flag", "help", "stray arguments", "parse $VERBOSITY"}

\* the run ended in the switch of main (or on the failure of git before it)
UsageError == pc = "exit" /\ requests = <<>> /\ err \notin EarlyExits \cup {"url panic"}

\* C8: with -build n, n > 0, the branch is ignored: whatever the branch, the
\* run takes the decision (to abort or to go on) it would take for any other
\* branch, the empty one included.
C8_BranchIgnored ==
    (flagBuild > 0 /\ pc # "main" /\ err \notin EarlyExits) =>
        \A b \in {<<>>, Master, Feature1} :
            UsageError =
               (MainSwitch(project, b, artifactName, flagListArtifacts, circleToken,
                           retrieveBuildsCount, flagBuild) \notin {"bypass", "resolve"})

----------------------------------------------------------------------------
(* downloadArtifact. *)

\* s ends with suffix
EndsWith(s, suffix) == \E k \in 0..Len(s) : s = SubSeq(s, 1, k) \o suffix

\* the offsets of the artifacts whose URL ends with the artifact name
Candidates == {k \in 0..(Len(artifacts) - 1) : EndsWith(artifacts[k + 1].URL, artifactName)}

\* downloadArtifact was called and is over
DownloadOver ==
    /\ pc = "exit"
    /\ artifactName # <<>>
    /\ RequestsOf("artifacts") # {}
    /\ exitStatus = 0 \/ err \notin {"transport", "decode"}

\* the URL of the artifact at offset k holds no "%"
Escapeless(k) == \A j \in 1..Len(artifacts[k + 1].URL) : artifacts[k + 1].URL[j] # "%"

\* C9: downloadArtifact fetches at most once, and only the first artifact whose
\* URL ends with the name, even if that fetch fails; with no such artifact it
\* fails with the not-found error without a fetch.  Outside a dry run, and if
\* its URL parses, the first such artifact is fetched.
C9_OneFetch ==
    /\ Cardinality(RequestsOf("download")) <= 1
    /\ \A k \in RequestsOf("download") : requests[k].n = First(Candidates)
    /\ RequestsOf("download") # {} => Candidates # {}
    /\ (DownloadOver /\ Candidates = {}) =>
           exitStatus = 1 /\ err = "no artifact" /\ RequestsOf("download") = {}
    /\ (DownloadOver /\ Candidates # {} /\ ~dryRun /\ Escapeless(First(Candidates))) =>
           RequestsOf("download") # {}

\* C9 happens: two artifacts match, the fetch of the first failed, and the run
\* ended without a fetch of the second
C9_Witness ==
    /\ DownloadOver
    /\ Candidates = {0, 1}
    /\ err = "get failed"
    /\ requests[Len(requests)] = Request("download", 0)

\* C10 as claimed: in a dry run nothing is fetched, no file is created, and the
\* run exits zero exactly when an artifact's URL ends with the name.
C10_DryRunAsClaimed ==
    (dryRun /\ artifactName # <<>>) =>
        /\ RequestsOf("download") = {}
        /\ ~outputCreated
        /\ DownloadOver => (exitStatus = 0) = (Candidates # {})

\* C10, amended: in a dry run nothing is fetched, no file is created, and the
\* run exits zero at the first artifact whose URL ends with the name if that
\* URL parses; it exits non-zero if that URL does not parse or no URL ends with
\* the name.
C10_DryRun ==
    (dryRun /\ artifactName # <<>>) =>
        /\ RequestsOf("download") = {}
        /\ ~outputCreated
        /\ DownloadOver =>
             /\ (exitStatus = 0) = (Candidates # {} /\ Escapeless(First(Candidates)))
             /\ exitStatus # 0 => exitStatus = 1
             /\ Candidates # {} => ai = First(Candidates)

\* C10 happens: a dry run passed over an artifact, found the next one and exited zero
C10_Witness ==
    /\ dryRun
    /\ DownloadOver
    /\ exitStatus = 0
    /\ First(Candidates) = 1

----------------------------------------------------------------------------
(* The course of a run. *)

\* the kinds of the requests made so far, in order
Kinds == [k \in 1..Len(requests) |-> requests[k].kind]

\* s is the beginning of t
IsPrefix(s, t) == Len(s) <= Len(t) /\ s = SubSeq(t, 1, Len(s))

\* the errors of the network and of decoding
TransportFailures == {"transport", "copy", "decode", "get failed", "not 200"}

\* C11: the requests of a run are, in this order, at most one for the build
\* list (none with -build n, n > 0), at most one for the artifact list and at
\* most one download; the artifact list is never requested after a failed
\* resolution; a transport or decode failure ends the run at once, with a
\* non-zero status, and an ended run does nothing more.
C11_RequestOrder ==
    /\ \/ IsPrefix(Kinds, <<"builds", "artifacts", "download">>)
       \/ IsPrefix(Kinds, <<"artifacts", "download">>)
    /\ flagBuild > 0 => RequestsOf("builds") = {}
    /\ (Called /\ RequestsOf("artifacts") # {}) => foundBuild >= 0
    /\ NotFound => Kinds = <<"builds">>
    /\ err \in TransportFailures => pc = "exit" /\ exitStatus = 1
    /\ pc = "exit" => ~ENABLED Next

\* C11 happens: build list, artifact list and download were requested in turn,
\* and the run ended on the failure of the download
C11_Witness ==
    /\ Kinds = <<"builds", "artifacts", "download">>
    /\ err = "get failed"
    /\ pc = "exit"

\* the lines shown that carry a URL or a part of one
URLLines == {k \in 1..Len(shown) : "token" \in DOMAIN shown[k].args}

\* what may stand for the circle-token parameter of a URL shown
Redacted == {<<>>, Censored}

\* C12: on every path, at every verbosity, nothing written to stdout or stderr
\* holds the value of the token: every URL shown has its circle-token
\* parameter redacted.
C12_TokenNeverShown ==
    \A k \in URLLines : shown[k].args.token \in Redacted

\* the lines of the errors of the HTTP client and of the panics of mutateURL
ErrorTexts == {"Get", "panic: parse", "panic: invalid URL escape"}

\* what is left of C12: if neither the project, the branch nor the token holds
\* a "#", the URLs shown by the run itself, as opposed to those in the errors
\* of the HTTP client and in the panics of mutateURL, are redacted
TokenCensoredByCart ==
    FragmentAt(project \o filter.branch \o circleToken) = 0 =>
        \A k \in URLLines :
            shown[k].text \notin ErrorTexts => shown[k].args.token \in Redacted

----------------------------------------------------------------------------
(* The project of the git remote. *)

\* owner/repo
Slashed(owner, repo) == owner \o <<"/">> \o repo

\* the run is past the git remote; the runs whose remote is made of Names are
\* runs without -repo
FromRemote == pc # "main" /\ err # "exec git"

\* C13: for every owner and repository name, gitProject gives owner/repo for
\* the https remote and for the ssh remote (which ends in .git) of owner/repo
\* on github.com, and the empty string for a remote that is not on github.com;
\* that is the project of a run without -repo.
C13_GitProject ==
    FromRemote =>
        \A owner \in Names : \A repo \in Names :
            /\ remote \in {HttpsRemote(owner, repo), SshRemote(owner, repo)} =>
                  project = Slashed(owner, repo)
            /\ remote = OtherRemote(owner, repo) =>
                  project = <<>>

\* the name is made of word characters only
Wordy(name) == \A k \in 1..Len(name) : name[k] \in WordChars

\* what is left of C13: it holds for the names made of letters, digits and
\* underscores
GitProjectOfWordyNames ==
    FromRemote =>
        \A owner \in Names : \A repo \in Names :
            /\ (remote \in {HttpsRemote(owner, repo), SshRemote(owner, repo)}
                   /\ Wordy(owner) /\ Wordy(repo)) =>
                  project = Slashed(owner, repo)
            /\ remote = OtherRemote(owner, repo) =>
                  project = <<>>

\* the two remotes of the test give nbio/cart
Test_gitProject ==
    /\ gitProject(HttpsRemote(<<"n", "b", "i", "o">>, <<"c", "a", "r", "t">>)) = NbioCart
    /\ gitProject(SshRemote(<<"n", "b", "i", "o">>, <<"c", "a", "r", "t">>)) = NbioCart

----------------------------------------------------------------------------
(* The messages of a failed search. *)

\* the last line written
LastShown == shown[Len(shown)]

\* the URL of the build list of this run
BuildListURL == ExpandURL(buildListURL(project, filter.branch, circleToken))

\* why the search of build list bs fails, in the words of the spec
Reason(bs, f) ==
    IF Len(bs) = 0 THEN "branch"
    ELSE IF f.workflow # "" /\ \A k \in 1..Len(bs) :
                \/ bs[k].Workflows = Nil
                \/ bs[k].Workflows[1].WorkflowName # f.workflow THEN "workflow"
    ELSE IF f.jobname # "" /\ \A k \in 1..Len(bs) :
                \/ bs[k].Workflows = Nil
                \/ bs[k].Workflows[1].JobName # f.jobname THEN "jobname"
    ELSE "other"

\* the build lists of one build, and the empty one
OneBuildLists ==
    {<<>>} \cup {BuildList(1, 0, <<w>>, <<o>>) :
                    w \in {Nil} \cup OneWorkflowInfos, o \in Outcomes}

\* the build lists of OneBuildLists on which the search fails for another of
\* the three reasons than it does in this run
FailedOtherwise ==
    {bs \in OneBuildLists :
        /\ circleFindBuild(bs, filter).status \in {"no builds", "no match"}
        /\ Reason(bs, filter) \in {"branch", "workflow", "jobname"}
        /\ Reason(bs, filter) # Reason(builds, filter)}

\* C17 as claimed: the message of a failed search names the workflow and the
\* job searched for ("*" for an empty filter) and the branch, and searches
\* that fail for different reasons (no builds on the branch, no build of the
\* workflow, no build of the job) write different messages.
C17_ReasonsToldApart ==
    (NotFound /\ Reason(builds, filter) \in {"branch", "workflow", "jobname"}) =>
        LET u == BuildListURL
        IN  \A bs \in FailedOtherwise :
                circleFindBuildShown(bs, filter, verbosity, u) # shown

\* C17: the message of a search that found no build names the workflow and
\* the job searched for ("*" for an empty filter) and the branch; the message
\* of a search on an empty build list is another one and names the branch;
\* on the same filters every search that finds no build ends on the same
\* message, whatever the reason.
C17_NotFoundMessage ==
    /\ err = "no match" =>
          /\ LastShown.text = "build: failed to find a build matching"
          /\ LastShown.args.branch = filter.branch
          /\ LastShown.args.workflow = "*" <=> filter.workflow = ""
          /\ LastShown.args.jobname = "*" <=> filter.jobname = ""
          /\ filter.workflow # "" => LastShown.args.workflow = filter.workflow
          /\ filter.jobname # "" => LastShown.args.jobname = filter.jobname
          /\ LET u == BuildListURL
             IN  \A bs \in OneBuildLists :
                    circleFindBuild(bs, filter).status = "no match" =>
                        LET said == circleFindBuildShown(bs, filter, verbosity, u)
                        IN  said[Len(said)] = LastShown
    /\ err = "no builds" =>
          /\ LastShown.text = "no builds found for branch:"
          /\ LastShown.args.branch = filter.branch

\* C17 happens: the search for job build of workflow A has failed on a list
\* that holds builds of the workflow but none of the job
C17_Witness ==
    /\ err = "no match"
    /\ filter.workflow = "A" /\ filter.jobname = "build"
    /\ Reason(builds, filter) = "jobname"

\* what a failed search has written is what circleFindBuildShown says
ShownAgrees ==
    NotFound => shown = circleFindBuildShown(builds, filter, verbosity, BuildListURL)

----------------------------------------------------------------------------
(* The build search, continued. *)

\* circleFindBuild is scanning the build list or is done with it
Scanning == pc = "scan" \/ ScanOver

\* the first build of the list, green or not, of the requested workflow
LatestOfWorkflow == First({k \in Offsets : Named(k)})

\* C14: with a workflow filter and without -ignore-later-workflows, the id
\* latched and the instance of the build found are those of the first build of
\* the list that carries the requested workflow name.
C14_LatestInstance ==
    (filter.workflow # "" /\ ~filter.anyFlowID /\ Scanning) =>
        /\ onlyWorkflowID # "" => onlyWorkflowID = Instance(LatestOfWorkflow)
        /\ foundBuild >= 0 => Instance(foundBuild) = Instance(LatestOfWorkflow)

\* what is left of C14: it holds when the first build of the workflow is green
\* and has a workflow id
LatestInstanceIfGreenHead ==
    (filter.workflow # "" /\ ~filter.anyFlowID /\ Scanning
        /\ LatestOfWorkflow >= 0 /\ Green(LatestOfWorkflow)
        /\ Instance(LatestOfWorkflow) # "") =>
        /\ onlyWorkflowID # "" => onlyWorkflowID = Instance(LatestOfWorkflow)
        /\ foundBuild >= 0 => Instance(foundBuild) = Instance(LatestOfWorkflow)

\* the instance ids of the builds at which the latch was assigned
LatchedIDs == {Instance(k) : k \in heads}

\* C15: in one scan the latch is assigned at most once: at most one build is
\* marked headOfWorkflow, from then on the latched id is the id of that build,
\* and a build found after it carries that id, whatever the ids are, the
\* empty string included.
C15_LatchedOnce ==
    Scanning =>
        /\ Cardinality(heads) <= 1
        /\ heads # {} => LatchedIDs = {onlyWorkflowID}
        /\ (heads # {} /\ foundBuild >= 0) => LatchedIDs = {Instance(foundBuild)}

\* what is left of C15: it holds on the build lists without an empty workflow id
LatchedOnceUnlessEmptyID ==
    (Scanning /\ \A k \in Offsets : InWorkflow(k) => Instance(k) # "") =>
        /\ Cardinality(heads) <= 1
        /\ heads # {} => LatchedIDs = {onlyWorkflowID}
        /\ (heads # {} /\ foundBuild >= 0) => LatchedIDs = {Instance(foundBuild)}

\* the filters of the run, with -ignore-later-workflows given
AnyGeneration == [filter EXCEPT !.anyFlowID = TRUE]

\* C20: on the same build list and with the same branch, workflow and job
\* filters, whenever circleFindBuild returns a build without
\* -ignore-later-workflows, it returns one with it, at the same offset or
\* before, and at the same offset when there is no workflow filter.
C20_AnyGenerationNoOlder ==
    (ScanOver /\ ~filter.anyFlowID /\ foundBuild >= 0 /\ ReturnedAt(foundBuild)) =>
        LET r == circleFindBuild(builds, AnyGeneration)
        IN  /\ r.status = "returned"
            /\ r.offset <= foundBuild
            /\ filter.workflow = "" => r.offset = foundBuild

\* what is left of C20: the build the loop finds with -ignore-later-workflows
\* is at the same offset or before
AnyGenerationFoundNoLater ==
    (ScanOver /\ ~filter.anyFlowID /\ foundBuild >= 0) =>
        LET k == Scan(builds, AnyGeneration, 0, "")
        IN  /\ k \in 0..foundBuild
            /\ filter.workflow = "" => k = foundBuild

\* the loop, taken step by step, finds what the loop taken at once finds
ScanAgrees ==
    (ScanOver /\ Len(builds) > 0) => foundBuild = Scan(builds, filter, 0, "")

\* C16: a build found that is outside any workflow is the build at offset 0.
C16_WorkflowLessAtZero ==
    (Scanning /\ foundBuild >= 0 /\ ~InWorkflow(foundBuild)) => foundBuild = 0

\* C18: whenever the search finds a build, circleFindBuild returns its build
\* number and does not abort, whatever its revision.
C18_FoundIsReturned ==
    (ScanOver /\ foundBuild >= 0) => ReturnedAt(foundBuild)

\* what is left of C18: a build found is returned if its revision has at least
\* RevisionPrefix characters
FoundIsReturnedIfFullRevision ==
    (ScanOver /\ foundBuild >= 0 /\ builds[foundBuild + 1].Revision >= RevisionPrefix) =>
        ReturnedAt(foundBuild)

\* C19: the search never reads a field of the workflow of a build that has
\* none, and a build outside any workflow is found only with no workflow filter
\* and no job filter.
C19_NoNilRead ==
    /\ err # "nil workflow"
    /\ (pc = "scan" /\ i < Len(builds)) =>
           LoopBody(builds[i + 1], onlyWorkflowID, filter).verdict # "panic"
    /\ (Scanning /\ foundBuild >= 0 /\ ~InWorkflow(foundBuild)) =>
           filter.workflow = "" /\ filter.jobname = ""

\* C19 happens: with a job filter, a green build outside any workflow was
\* passed over and the search went on
C19_Witness ==
    /\ pc = "scan"
    /\ i >= 1
    /\ ~InWorkflow(0) /\ Green(0)
    /\ filter.jobname # ""

====
